---- MODULE Spec2Model ----
(***************************************************************************)
(* The real-time duplex voice session of src/App.tsx: the controller       *)
(* (startVoiceMode / stopVoiceMode and the mutable ref slots they share),  *)
(* the transport callbacks (onopen, onmessage, onerror, onclose), the      *)
(* capture callback (onaudioprocess), the frame-sampler interval and the   *)
(* playback scheduler inside onmessage.                                    *)
(*                                                                         *)
(* Every invocation of startVoiceMode is an "attempt" with an id 1..N.     *)
(* The objects an attempt creates carry its id: the two AudioContexts      *)
(* (ctxIn[a], ctxOut[a]), the MediaStream (stream[a]), the transport       *)
(* (ws[a]) and its connect promise (connP[a]), the ScriptProcessor         *)
(* (processor[a]) and the interval (timer[a]).  A ref slot holds an id or  *)
(* Null.  The browser, React and the genai client are the environment:     *)
(* they deliver promise settlements and events one at a time.              *)
(***************************************************************************)
EXTENDS Integers, Sequences, FiniteSets, TLC

\* ------------------------------------------------------------------ bounds
MaxSessions == 2
MaxChunks   == 2
MaxTime     == 1
MaxOut      == 2
MaxInboundSessions == 1
MaxOverdrive == 5

\* a float sample is SampleNum / SampleDen
SampleDen == 1000

Null == 0

Sessions  == 1..MaxSessions
Handles   == 1..MaxChunks
Durations == {1, 2}
Languages == {"so-SO", "en-US"}
Voices    == {"Zephyr", "Kore"}

Max(a, b) == IF a >= b THEN a ELSE b

VARIABLES
  \* React state of App
  activeSession,        \* an active chat session exists (App.tsx:180)
  isVoiceModeActive,    \* App.tsx:142
  isMicMuted,           \* App.tsx:144
  isCameraActive,       \* App.tsx:145
  voiceTranscription,   \* App.tsx:146
  settings,             \* [language, voice] of App.tsx:150
  toast,                \* App.tsx:141
  \* refs of App
  liveSessionRef,       \* App.tsx:169
  liveAudioCtxInRef,    \* App.tsx:170
  liveAudioCtxOutRef,   \* App.tsx:171
  liveSources,          \* App.tsx:172
  liveNextStartTime,    \* App.tsx:173
  isMicMutedRef,        \* App.tsx:174
  streamRef,            \* App.tsx:175
  frameIntervalRef,     \* App.tsx:176
  \* the invocations of startVoiceMode
  nextId,               \* number of attempts started so far
  pc,                   \* where each attempt's async body stands
  att,                  \* what each attempt's closure captured
  \* platform objects
  ws,                   \* transport of each attempt
  connP,                \* the promise returned by ai.live.connect
  stream,               \* MediaStream of each attempt
  ctxIn,                \* 16 kHz AudioContext of each attempt
  ctxOut,               \* 24 kHz AudioContext of each attempt
  clock,                \* ctxOut[a].currentTime
  processor,            \* ctx the attempt's ScriptProcessor runs on, or Null
  timer,                \* the attempt's setInterval is armed
  pendingSends,         \* sessionPromise.then(...) callbacks not yet run
  handle,               \* the AudioBufferSourceNodes created so far
  nHandles,
  decodes,              \* onmessage invocations suspended at the await
  \* history
  nOut,                 \* captured audio blocks and sampler ticks so far
  intr,                 \* a reset ran and no audio arrived / was scheduled since
  sent,                 \* every sendRealtimeInput call, in call order
  capturedMuted,        \* the blocks captured while isMicMutedRef was set
  hist,                 \* per attempt: what happened to it
  faultsOn,             \* the platform may throw inside teardown calls
  \* the PCM conversions, followed for one sample, and the base64 transport
  \* encoding, followed for one byte sequence
  codec                 \* [stage, sample, bytes, out, data, text, back]

ctlVars   == <<activeSession, isVoiceModeActive, isMicMuted, isCameraActive,
               voiceTranscription, settings, toast>>
refVars   == <<liveSessionRef, liveAudioCtxInRef, liveAudioCtxOutRef, liveSources,
               liveNextStartTime, isMicMutedRef, streamRef, frameIntervalRef>>
attVars   == <<nextId, pc, att>>
platVars  == <<ws, connP, stream, ctxIn, ctxOut, clock, processor, timer,
               pendingSends, handle, nHandles, decodes>>
histVars  == <<nOut, intr, sent, capturedMuted, hist, faultsOn>>
vars      == <<ctlVars, refVars, attVars, platVars, histVars, codec>>


\* ------------------------------------------------------------------ teardown
\* The part of the state stopVoiceMode and the interruption branch work on,
\* as one record, so that a handler which calls stopVoiceMode after its own
\* assignments is one step.
Cur ==
  [ ws |-> ws, timer |-> timer, handle |-> handle, liveSources |-> liveSources,
    stream |-> stream, ctxIn |-> ctxIn, ctxOut |-> ctxOut,
    liveSessionRef |-> liveSessionRef, streamRef |-> streamRef,
    liveAudioCtxInRef |-> liveAudioCtxInRef, liveAudioCtxOutRef |-> liveAudioCtxOutRef,
    liveNextStartTime |-> liveNextStartTime, frameIntervalRef |-> frameIntervalRef,
    isVoiceModeActive |-> isVoiceModeActive, isMicMuted |-> isMicMuted,
    isCameraActive |-> isCameraActive, voiceTranscription |-> voiceTranscription ]

Commit(r) ==
  /\ ws' = r.ws
  /\ timer' = r.timer
  /\ handle' = r.handle
  /\ liveSources' = r.liveSources
  /\ stream' = r.stream
  /\ ctxIn' = r.ctxIn
  /\ ctxOut' = r.ctxOut
  /\ liveSessionRef' = r.liveSessionRef
  /\ streamRef' = r.streamRef
  /\ liveAudioCtxInRef' = r.liveAudioCtxInRef
  /\ liveAudioCtxOutRef' = r.liveAudioCtxOutRef
  /\ liveNextStartTime' = r.liveNextStartTime
  /\ frameIntervalRef' = r.frameIntervalRef
  /\ isVoiceModeActive' = r.isVoiceModeActive
  /\ isMicMuted' = r.isMicMuted
  /\ isCameraActive' = r.isCameraActive
  /\ voiceTranscription' = r.voiceTranscription

\* Teardown calls that may throw: session.close(), track.stop(),
\* AudioContext.close() of the input and of the output context.
Faults == {"none", "close", "tracks", "ctxIn", "ctxOut"}

\* Session.close(): an open socket starts closing, any other is left alone.
SessionClose(w) == IF w = "open" THEN "closing" ELSE w

\* the loop without its try/catch: the first stop() that throws ends the loop
\* and skips the clear()
StopAllSourcesNoCatch(r, sf) ==
  IF sf \cap r.liveSources # {} THEN r
  ELSE [r EXCEPT
          !.handle = [h \in Handles |->
                        IF h \in r.liveSources /\ r.handle[h].st = "scheduled"
                        THEN [r.handle[h] EXCEPT !.st = "stopped"]
                        ELSE r.handle[h]],
          !.liveSources = {}]

\* liveSourcesRef.current.forEach(s => { try { s.stop(); } catch(e) {} });
\* liveSourcesRef.current.clear();   sf: the sources whose stop() throws.
StopAllSources(r, sf) ==
  [r EXCEPT
     !.handle = [h \in Handles |->
                   IF h \in r.liveSources /\ r.handle[h].st = "scheduled"
                   THEN [r.handle[h] EXCEPT !.st = IF h \in sf THEN "stopFailed"
                                                               ELSE "stopped"]
                   ELSE r.handle[h]],
     !.liveSources = {}]

\* the reset with streamRef.current = null left out
StopResetKeepsStream(r) ==
  [r EXCEPT !.liveSessionRef = Null,
            !.liveAudioCtxInRef = Null, !.liveAudioCtxOutRef = Null,
            !.isVoiceModeActive = FALSE, !.isMicMuted = FALSE,
            !.isCameraActive = FALSE, !.voiceTranscription = "none"]

\* lines 201-209: the refs are nulled and the React state is reset.
StopReset(r) ==
  [r EXCEPT !.liveSessionRef = Null, !.streamRef = Null,
            !.liveAudioCtxInRef = Null, !.liveAudioCtxOutRef = Null,
            !.isVoiceModeActive = FALSE, !.isMicMuted = FALSE,
            !.isCameraActive = FALSE, !.voiceTranscription = "none"]

StopCloseSession(r) ==
  IF r.liveSessionRef # Null
  THEN [r EXCEPT !.ws[r.liveSessionRef] = SessionClose(@)] ELSE r

StopClearInterval(r) ==
  IF r.frameIntervalRef # Null
  THEN [r EXCEPT !.timer[r.frameIntervalRef] = FALSE] ELSE r

StopTracks(r) ==
  IF r.streamRef # Null
  THEN [r EXCEPT !.stream[r.streamRef] = IF @ = "live" THEN "stopped" ELSE @] ELSE r

StopCtxIn(r) ==
  IF r.liveAudioCtxInRef # Null
  THEN [r EXCEPT !.ctxIn[r.liveAudioCtxInRef] = "closed"] ELSE r

StopCtxOut(r) ==
  IF r.liveAudioCtxOutRef # Null
  THEN [r EXCEPT !.ctxOut[r.liveAudioCtxOutRef] = "closed"] ELSE r

\* stopVoiceMode with the capture device released before anything else
StopVoiceModeTracksFirst(r, f, sf) ==
  IF f = "tracks" /\ r.streamRef # Null THEN r
  ELSE LET r1 == StopTracks(r) IN
       IF f = "close" /\ r1.liveSessionRef # Null THEN r1
       ELSE LET r4 == StopAllSources(StopClearInterval(StopCloseSession(r1)), sf) IN
            IF f = "ctxIn" /\ r4.liveAudioCtxInRef # Null THEN r4
            ELSE LET r5 == StopCtxIn(r4) IN
                 IF f = "ctxOut" /\ r5.liveAudioCtxOutRef # Null THEN r5
                 ELSE StopReset(StopCtxOut(r5))

\* stopVoiceMode (App.tsx:191-211).  One try block: the first call that throws
\* (f) sends control to the catch, which only logs; everything after it in the
\* block is skipped.  A throw of s.stop() is caught per source (sf).
StopVoiceMode(r, f, sf) ==
  IF f = "close" /\ r.liveSessionRef # Null THEN r
  ELSE LET r3 == StopAllSources(StopClearInterval(StopCloseSession(r)), sf) IN
       IF f = "tracks" /\ r3.streamRef # Null THEN r3
       ELSE LET r4 == StopTracks(r3) IN
            IF f = "ctxIn" /\ r4.liveAudioCtxInRef # Null THEN r4
            ELSE LET r5 == StopCtxIn(r4) IN
                 IF f = "ctxOut" /\ r5.liveAudioCtxOutRef # Null THEN r5
                 ELSE StopReset(StopCtxOut(r5))

\* the call of the try block that throws when fault f is armed: a call is
\* made only when its ref is set
StopThrowsAt(r, f) ==
  IF \/ f = "close"  /\ r.liveSessionRef # Null
     \/ f = "tracks" /\ r.streamRef # Null
     \/ f = "ctxIn"  /\ r.liveAudioCtxInRef # Null
     \/ f = "ctxOut" /\ r.liveAudioCtxOutRef # Null
  THEN f ELSE "none"

\* stopVoiceMode without its outer try/catch
StopOutcomeNoCatch(r, f, sf) ==
  IF StopThrowsAt(r, f) # "none" THEN "thrown" ELSE "completed"

\* how stopVoiceMode ends: the try of line 192 encloses every call and the
\* catch of line 210 only logs; a throwing s.stop() is caught inside the loop
StopOutcome(r, f, sf) ==
  IF StopThrowsAt(r, f) # "none" THEN "caught" ELSE "completed"


\* ------------------------------------------------------------------ initial state
\* a source node: st, ctx, start and dur are the node's; the rest is history:
\* sess  the session whose message carried the chunk
\* arr   the output clock when the message arrived
\* fresh an interruption reset had run and no audio had arrived since
\* cont  no reset ran between the previous node's scheduling and this one's
\* late  a reset ran while this chunk's decode was pending
\* stale the message whose reset that was arrived after this chunk's
\* queued another chunk's decode was pending when this one arrived
\* voided the interruption branch called stop() on the node
NoHandle == [st |-> "none", ctx |-> Null, sess |-> Null, start |-> 0, dur |-> 0,
             arr |-> 0, fresh |-> FALSE, cont |-> FALSE, late |-> FALSE,
             stale |-> FALSE, voided |-> FALSE, queued |-> FALSE]
\* what happened to an attempt:
\* stoppedAt  the await it was suspended at when a stopVoiceMode first ran
\* opened, openThrew  onopen was called; it threw
\* notif      setToast calls made on its behalf
\* failed     the first failure it met
\* ended      onclose was called
NoHist   == [stoppedAt |-> "no", opened |-> FALSE, openThrew |-> FALSE,
             notif |-> 0, failed |-> "none", ended |-> FALSE]
NoAtt    == [cam |-> FALSE, language |-> "so-SO", voice |-> "Zephyr"]

InitCommon ==
  /\ activeSession \in BOOLEAN
  /\ isVoiceModeActive = FALSE
  /\ isMicMuted = FALSE
  /\ isCameraActive = FALSE
  /\ voiceTranscription = "none"
  /\ settings = [language |-> "so-SO", voice |-> "Zephyr"]
  /\ toast = "none"
  /\ liveSessionRef = Null
  /\ liveAudioCtxInRef = Null
  /\ liveAudioCtxOutRef = Null
  /\ liveSources = {}
  /\ liveNextStartTime = 0
  /\ isMicMutedRef = FALSE
  /\ streamRef = Null
  /\ frameIntervalRef = Null
  /\ nextId = 0
  /\ pc = [a \in Sessions |-> "idle"]
  /\ att = [a \in Sessions |-> NoAtt]
  /\ ws = [a \in Sessions |-> "none"]
  /\ connP = [a \in Sessions |-> "none"]
  /\ stream = [a \in Sessions |-> "none"]
  /\ ctxIn = [a \in Sessions |-> "none"]
  /\ ctxOut = [a \in Sessions |-> "none"]
  /\ clock = [a \in Sessions |-> 0]
  /\ processor = [a \in Sessions |-> Null]
  /\ timer = [a \in Sessions |-> FALSE]
  /\ pendingSends = [a \in Sessions |-> <<>>]
  /\ handle = [h \in Handles |-> NoHandle]
  /\ nHandles = 0
  /\ decodes = <<>>
  /\ nOut = 0
  /\ intr = [fresh |-> FALSE, sinceSched |-> FALSE]
  /\ sent = <<>>
  /\ capturedMuted = {}
  /\ hist = [a \in Sessions |-> NoHist]

\* no sample is being followed
NoCodec == [stage |-> "none", sample |-> 0, bytes |-> <<0, 0>>, out |-> 0,
            data |-> <<>>, text |-> <<>>, back |-> <<>>]

\* The platform as it is: close() and stop() calls do not throw.
Init == InitCommon /\ faultsOn = "none" /\ codec = NoCodec

\* The platform the inner try/catch is written for: stop() of a source may throw.
InitSourceFaults == InitCommon /\ faultsOn = "sources" /\ codec = NoCodec

\* The platform the outer try/catch is written for: any teardown call may throw.
InitFaults == InitCommon /\ faultsOn = "all" /\ codec = NoCodec

\* what a teardown call may throw, and which sources' stop() may throw
FaultChoices  == IF faultsOn = "all" THEN Faults ELSE {"none"}
SourceFaultsOf(S) == IF faultsOn = "none" THEN {{}} ELSE SUBSET S
SourceFaults  == SourceFaultsOf(liveSources)

\* ------------------------------------------------------------------ history helpers
InFlight(p) == p \in {"acquiring", "connecting"}

\* a stopVoiceMode ran: every attempt still suspended at an await notes it
MarkStop(h) ==
  [b \in Sessions |-> IF InFlight(pc[b]) /\ h[b].stoppedAt = "no"
                      THEN [h[b] EXCEPT !.stoppedAt = pc[b]]
                      ELSE h[b]]

Notify(h, a) == [h EXCEPT ![a].notif = @ + 1]


\* ------------------------------------------------------------------ controller
\* startVoiceMode, from its first line to the await of getUserMedia
\* (App.tsx:213-223), run on the state r.  lang, voice and cam are what the
\* closure of this render holds.
StartVoiceModeOn(r, lang, voice, cam) ==
  LET a == nextId + 1 IN
  /\ activeSession
  /\ nextId < MaxSessions
  /\ Commit([r EXCEPT !.isVoiceModeActive = TRUE,
                      !.ctxIn[a] = "running", !.ctxOut[a] = "running",
                      !.liveAudioCtxInRef = a, !.liveAudioCtxOutRef = a])
  /\ nextId' = a
  /\ pc' = [pc EXCEPT ![a] = "acquiring"]
  /\ att' = [att EXCEPT ![a] = [cam |-> cam, language |-> lang, voice |-> voice]]
  /\ UNCHANGED <<activeSession, toast, isMicMutedRef, connP, clock, processor,
                 pendingSends, nHandles, decodes, nOut, intr, sent, capturedMuted,
                 faultsOn, codec>>

\* the mic / headphones buttons and mod+v (App.tsx:566, 727, 439)
StartVoiceMode ==
  /\ StartVoiceModeOn(Cur, settings.language, settings.voice, isCameraActive)
  /\ UNCHANGED <<settings, hist>>

\* App.tsx:214: no active chat session, only a toast
StartVoiceModeNoSession ==
  /\ ~activeSession
  /\ toast' = "noSession"
  /\ Commit(Cur)
  /\ UNCHANGED <<activeSession, settings, isMicMutedRef, attVars, connP, clock,
                 processor, pendingSends, nHandles, decodes, nOut, intr, sent,
                 capturedMuted, hist, faultsOn, codec>>

\* a chat session is created (persona modal)
CreateChat ==
  /\ ~activeSession
  /\ activeSession' = TRUE
  /\ Commit(Cur)
  /\ UNCHANGED <<settings, toast, isMicMutedRef, attVars, connP, clock, processor,
                 pendingSends, nHandles, decodes, nOut, intr, sent, capturedMuted,
                 hist, faultsOn, codec>>

\* the X and End Call buttons, Escape and mod+v of the voice overlay
\* (App.tsx:848, 908, 446, 439): reachable while isVoiceModeActive
StopVoiceModeUser ==
  /\ isVoiceModeActive
  /\ \E f \in FaultChoices, sf \in SourceFaults :
       Commit(StopVoiceMode(Cur, f, sf))
  /\ hist' = MarkStop(hist)
  /\ UNCHANGED <<activeSession, settings, toast, isMicMutedRef, attVars, connP, clock,
                 processor, pendingSends, nHandles, decodes, nOut, intr, sent,
                 capturedMuted, faultsOn, codec>>

\* handleVoiceLanguageChange (App.tsx:335-340): settings, stop, start
HandleVoiceLanguageChange ==
  /\ isVoiceModeActive
  /\ \E lang \in Languages, f \in FaultChoices, sf \in SourceFaults :
       /\ settings' = [settings EXCEPT !.language = lang]
       /\ StopOutcome(Cur, f, sf) # "thrown"
       /\ StartVoiceModeOn(StopVoiceMode(Cur, f, sf), lang, settings.voice,
                           isCameraActive)
  /\ hist' = MarkStop(hist)

\* handleVoiceChange (App.tsx:342-347): settings, stop, start
HandleVoiceChange ==
  /\ isVoiceModeActive
  /\ \E voice \in Voices, f \in FaultChoices, sf \in SourceFaults :
       /\ settings' = [settings EXCEPT !.voice = voice]
       /\ StopOutcome(Cur, f, sf) # "thrown"
       /\ StartVoiceModeOn(StopVoiceMode(Cur, f, sf), settings.language, voice,
                           isCameraActive)
  /\ hist' = MarkStop(hist)

\* the mute button of the overlay (App.tsx:890)
ToggleMute ==
  /\ isVoiceModeActive
  /\ Commit([Cur EXCEPT !.isMicMuted = ~isMicMuted])
  /\ UNCHANGED <<activeSession, settings, toast, isMicMutedRef, attVars, connP, clock,
                 processor, pendingSends, nHandles, decodes, nOut, intr, sent,
                 capturedMuted, hist, faultsOn, codec>>

\* useEffect(() => { isMicMutedRef.current = isMicMuted; }, [isMicMuted]) (App.tsx:178)
SyncMuteRef ==
  /\ isMicMutedRef # isMicMuted
  /\ isMicMutedRef' = isMicMuted
  /\ Commit(Cur)
  /\ UNCHANGED <<activeSession, settings, toast, attVars, connP, clock, processor,
                 pendingSends, nHandles, decodes, nOut, intr, sent, capturedMuted,
                 hist, faultsOn, codec>>

\* the camera button of the overlay (App.tsx:913)
ToggleCamera ==
  /\ isVoiceModeActive
  /\ Commit([Cur EXCEPT !.isCameraActive = ~isCameraActive])
  /\ UNCHANGED <<activeSession, settings, toast, isMicMutedRef, attVars, connP, clock,
                 processor, pendingSends, nHandles, decodes, nOut, intr, sent,
                 capturedMuted, hist, faultsOn, codec>>


\* ------------------------------------------------------------------ startVoiceMode, resumed
\* getUserMedia resolves: App.tsx:224-251, up to the await of line 317.
\* ai.live.connect is called and the socket starts connecting.
GetUserMediaResolves(a) ==
  /\ pc[a] = "acquiring"
  /\ Commit([Cur EXCEPT !.stream[a] = "live", !.streamRef = a, !.ws[a] = "connecting"])
  /\ connP' = [connP EXCEPT ![a] = "pending"]
  /\ pc' = [pc EXCEPT ![a] = "connecting"]
  /\ UNCHANGED <<activeSession, settings, toast, isMicMutedRef, nextId, att, clock,
                 processor, pendingSends, nHandles, decodes, nOut, intr, sent,
                 capturedMuted, hist, faultsOn, codec>>

\* what getUserMedia({audio: true, video: cam}) can fail on: one call acquires both
DeviceFailures(cam) == IF cam THEN {"mic", "cam"} ELSE {"mic"}

\* getUserMedia rejects: the catch of App.tsx:318-321
GetUserMediaRejects(a) ==
  /\ pc[a] = "acquiring"
  /\ \E cause \in DeviceFailures(att[a].cam), f \in FaultChoices, sf \in SourceFaults :
       /\ Commit(StopVoiceMode(Cur, f, sf))
       /\ hist' = [MarkStop(Notify(hist, a)) EXCEPT ![a].failed = cause,
                                                     ![a].stoppedAt = hist[a].stoppedAt]
  /\ toast' = "error"
  /\ pc' = [pc EXCEPT ![a] = "done"]
  /\ UNCHANGED <<activeSession, settings, isMicMutedRef, nextId, att, connP, clock,
                 processor, pendingSends, nHandles, decodes, nOut, intr, sent,
                 capturedMuted, faultsOn, codec>>

\* one sendRealtimeInput call on the session of attempt a
SendOn(w, log, a, item) ==
  Append(log, [sess |-> a, id |-> item.id, kind |-> item.kind, st |-> w[a],
               queued |-> item.queued])

\* the waiting callbacks run last-registered first
RECURSIVE SendAllLifo(_, _, _, _)
SendAllLifo(w, log, a, items) ==
  IF items = <<>> THEN log
  ELSE SendAllLifo(w, SendOn(w, log, a, items[Len(items)]), a,
                   SubSeq(items, 1, Len(items) - 1))

\* the callbacks registered on one promise run in registration order
RECURSIVE SendAll(_, _, _, _)
SendAll(w, log, a, items) ==
  IF items = <<>> THEN log
  ELSE SendAll(w, SendOn(w, log, a, Head(items)), a, Tail(items))

\* the connect promise resolves: line 317 stores the session, and the
\* sessionPromise.then(...) callbacks registered meanwhile run in order.
\* The client resolves only after onopen returned normally.
ConnectResolves(a) ==
  /\ pc[a] = "connecting"
  /\ connP[a] = "pending"
  /\ hist[a].opened /\ ~hist[a].openThrew
  /\ connP' = [connP EXCEPT ![a] = "resolved"]
  /\ Commit([Cur EXCEPT !.liveSessionRef = a])
  /\ sent' = SendAll(ws, sent, a, pendingSends[a])
  /\ pendingSends' = [pendingSends EXCEPT ![a] = <<>>]
  /\ pc' = [pc EXCEPT ![a] = "done"]
  /\ UNCHANGED <<activeSession, settings, toast, isMicMutedRef, nextId, att, clock,
                 processor, nHandles, decodes, nOut, intr, capturedMuted, hist, faultsOn, codec>>

\* the connect promise rejects (the socket never opened): the catch of 318-321
ConnectRejects(a) ==
  /\ pc[a] = "connecting"
  /\ connP[a] = "pending"
  /\ ~hist[a].opened
  /\ connP' = [connP EXCEPT ![a] = "rejected"]
  /\ \E f \in FaultChoices, sf \in SourceFaults :
       Commit(StopVoiceMode([Cur EXCEPT !.ws[a] = IF @ = "connecting" THEN "closed" ELSE @],
                            f, sf))
  /\ hist' = [MarkStop(Notify(hist, a)) EXCEPT ![a].failed = "connect",
                                                ![a].stoppedAt = hist[a].stoppedAt]
  /\ toast' = "error"
  /\ pc' = [pc EXCEPT ![a] = "done"]
  /\ UNCHANGED <<activeSession, settings, isMicMutedRef, nextId, att, clock, processor,
                 pendingSends, nHandles, decodes, nOut, intr, sent, capturedMuted,
                 faultsOn, codec>>

\* ------------------------------------------------------------------ transport callbacks
\* the <video> and <canvas> of the overlay are mounted (App.tsx:773-775, 921-924)
VideoMounted == isVoiceModeActive /\ isCameraActive

\* onopen (App.tsx:254-284).  ctx is whatever liveAudioCtxInRef holds now;
\* with the ref null, line 256 throws and nothing is set up.
OnOpen(a) ==
  /\ ws[a] = "connecting"
  /\ IF liveAudioCtxInRef = Null
     THEN /\ Commit([Cur EXCEPT !.ws[a] = "open"])
          /\ hist' = [hist EXCEPT ![a].opened = TRUE, ![a].openThrew = TRUE]
          /\ UNCHANGED processor
     ELSE /\ processor' = [processor EXCEPT ![a] = liveAudioCtxInRef]
          /\ hist' = [hist EXCEPT ![a].opened = TRUE]
          /\ IF att[a].cam /\ VideoMounted
             THEN Commit([Cur EXCEPT !.ws[a] = "open", !.timer[a] = TRUE,
                                     !.frameIntervalRef = a])
             ELSE Commit([Cur EXCEPT !.ws[a] = "open"])
  /\ UNCHANGED <<activeSession, settings, toast, isMicMutedRef, attVars, connP, clock,
                 pendingSends, nHandles, decodes, nOut, intr, sent, capturedMuted,
                 faultsOn, codec>>

\* onerror (App.tsx:307): toast, then stopVoiceMode
OnError(a) ==
  /\ ws[a] \in {"connecting", "open"}
  /\ \E f \in FaultChoices, sf \in SourceFaults :
       Commit(StopVoiceMode([Cur EXCEPT !.ws[a] = "errored"], f, sf))
  /\ toast' = "connLost"
  /\ hist' = [MarkStop(Notify(hist, a)) EXCEPT ![a].failed =
                 IF hist[a].failed = "none" THEN "transport" ELSE @]
  /\ UNCHANGED <<activeSession, settings, isMicMutedRef, attVars, connP, clock,
                 processor, pendingSends, nHandles, decodes, nOut, intr, sent,
                 capturedMuted, faultsOn, codec>>

\* onclose (App.tsx:308): the socket closed (remotely, after close(), or after
\* an error)
OnClose(a) ==
  /\ ws[a] \in {"open", "closing", "errored"}
  /\ Commit([Cur EXCEPT !.ws[a] = "closed", !.isVoiceModeActive = FALSE])
  /\ hist' = [hist EXCEPT ![a].ended = TRUE]
  /\ UNCHANGED <<activeSession, settings, toast, isMicMutedRef, attVars, connP, clock,
                 processor, pendingSends, nHandles, decodes, nOut, intr, sent,
                 capturedMuted, faultsOn, codec>>


\* ------------------------------------------------------------------ outbound path
\* sessionPromise.then(s => s.sendRealtimeInput(...)) (App.tsx:267, 280): runs
\* at once on a resolved promise, waits on a pending one
ThenSend(a, item) ==
  CASE connP[a] = "resolved" ->
         /\ sent' = SendOn(ws, sent, a, [id |-> item.id, kind |-> item.kind,
                                         queued |-> FALSE])
         /\ UNCHANGED pendingSends
    [] connP[a] = "pending" ->
         /\ pendingSends' = [pendingSends EXCEPT ![a] =
                                Append(@, [id |-> item.id, kind |-> item.kind,
                                           queued |-> TRUE])]
         /\ UNCHANGED sent
    [] OTHER                 -> UNCHANGED <<sent, pendingSends>>

\* the mute gate removed: every captured block is encoded and sent
MuteGateOff(muted) == FALSE

\* if (isMicMutedRef.current) return;   (App.tsx:259)
MuteGate(muted) == muted

\* the ScriptProcessor runs while the context it was created on runs
ProcessorRuns(a) == processor[a] # Null /\ ctxIn[processor[a]] = "running"

\* onaudioprocess (App.tsx:258-268): one captured block of 4096 samples
OnAudioProcess(a) ==
  /\ ProcessorRuns(a)
  /\ nOut < MaxOut
  /\ nOut' = nOut + 1
  /\ capturedMuted' = IF isMicMutedRef THEN capturedMuted \cup {nOut + 1}
                                         ELSE capturedMuted
  /\ IF MuteGate(isMicMutedRef)
     THEN UNCHANGED <<sent, pendingSends>>
     ELSE ThenSend(a, [id |-> nOut + 1, kind |-> "audio"])
  /\ Commit(Cur)
  /\ UNCHANGED <<activeSession, settings, toast, isMicMutedRef, attVars, connP, clock,
                 processor, nHandles, decodes, intr, hist, faultsOn, codec>>

\* one tick of the 2000 ms interval (App.tsx:275-282); avail: video.videoWidth > 0
IntervalTick(a) ==
  /\ timer[a]
  /\ nOut < MaxOut
  /\ \E avail \in BOOLEAN :
       IF avail
       THEN /\ nOut' = nOut + 1
            /\ ThenSend(a, [id |-> nOut + 1, kind |-> "image"])
       ELSE /\ UNCHANGED <<nOut, sent, pendingSends>>
  /\ Commit(Cur)
  /\ UNCHANGED <<activeSession, settings, toast, isMicMutedRef, attVars, connP, clock,
                 processor, nHandles, decodes, intr, capturedMuted, hist, faultsOn, codec>>

\* ------------------------------------------------------------------ inbound path
\* an inbound LiveServerMessage: audio payload (none, well-formed, or one whose
\* bytes do not decode), its decoded duration, the interruption flag, and
\* whether it carries an input or output transcription
Messages ==
  [audio : {"none", "ok", "bad"}, dur : Durations, interrupted : BOOLEAN,
   tr : BOOLEAN]

\* the cursor set to the clock on arrival, whatever it was
CursorAtArrivalNow(cursor, now) == now

\* liveNextStartTimeRef.current = Math.max(liveNextStartTimeRef.current,
\*                                         ctx.currentTime);   (App.tsx:289)
CursorAtArrival(cursor, now) == Max(cursor, now)

\* the cursor left where the chunk starts
AdvanceCursorNone(cursor, dur) == cursor

\* liveNextStartTimeRef.current += buffer.duration;   (App.tsx:296)
AdvanceCursor(cursor, dur) == cursor + dur

\* lines 299-305: the interruption branch and the transcription update
AfterAudio(r, m, sf) ==
  LET r1 == IF m.interrupted
            THEN [StopAllSources(r, sf) EXCEPT !.liveNextStartTime = 0]
            ELSE r
  IN  IF m.tr THEN [r1 EXCEPT !.voiceTranscription = "text"] ELSE r1

\* history of the interruption branch
AfterAudioIntr(i, m) ==
  IF m.interrupted THEN [fresh |-> TRUE, sinceSched |-> TRUE] ELSE i

MarkVoided(r, m, S) ==
  IF m.interrupted
  THEN [r EXCEPT !.handle = [h \in Handles |->
                               IF h \in S
                               THEN [r.handle[h] EXCEPT !.voided = TRUE]
                               ELSE r.handle[h]]]
  ELSE r

MarkLate(q, m) ==
  IF m.interrupted THEN [i \in DOMAIN q |-> [q[i] EXCEPT !.late = TRUE]] ELSE q

\* the interruption branch ran in the handler of a message that arrived while
\* the decodes of q were pending
MarkStale(q, m) ==
  IF m.interrupted THEN [i \in DOMAIN q |-> [q[i] EXCEPT !.stale = TRUE]] ELSE q

\* a decode failure answered with a force-stop
DecodeFailsStops(r) == StopVoiceMode(r, "none", {})

\* decode or decodeAudioData throws (App.tsx:290): the promise onmessage
\* returned rejects, nothing handles it, and the handler's later lines do not
\* run; the state is what line 289 left
DecodeFails(r) == r

\* onmessage (App.tsx:285-306), from its first line to the await of line 290
\* or, without audio to play, to its end
OnMessageOf(a, m) ==
  /\ ws[a] = "open"
  /\ m \in Messages
  /\ m.audio # "ok" => m.dur = 1
  /\ IF m.audio # "none" /\ liveAudioCtxOutRef # Null
          THEN LET ctx == liveAudioCtxOutRef
                   cursor == CursorAtArrival(liveNextStartTime, clock[ctx])
                   rc == [Cur EXCEPT !.liveNextStartTime = cursor]
               IN  /\ Commit(IF m.audio = "bad" THEN DecodeFails(rc) ELSE rc)
                   /\ IF m.audio = "bad"
                      THEN UNCHANGED <<decodes, intr>>
                      ELSE /\ nHandles + Len(decodes) < MaxChunks
                           /\ decodes' = Append(decodes,
                                [sess |-> a, ctx |-> ctx, m |-> m, arr |-> clock[ctx],
                                 fresh |-> intr.fresh, late |-> FALSE,
                                 stale |-> FALSE, queued |-> decodes # <<>>])
                           /\ intr' = [intr EXCEPT !.fresh = FALSE]
          ELSE /\ \E sf \in SourceFaults : Commit(MarkVoided(AfterAudio(Cur, m, sf), m, liveSources))
               /\ intr' = AfterAudioIntr(intr, m)
               /\ decodes' = MarkStale(MarkLate(decodes, m), m)
  /\ UNCHANGED <<activeSession, settings, toast, isMicMutedRef, attVars, connP, clock,
                 processor, pendingSends, nHandles, nOut, sent, capturedMuted, hist, faultsOn, codec>>

OnMessage(a) == \E m \in Messages : OnMessageOf(a, m)

\* a message that carries one audio chunk and nothing else
AudioChunkArrives(a) ==
  OnMessageOf(a, [audio |-> "ok", dur |-> 1, interrupted |-> FALSE, tr |-> FALSE])

\* the await of line 290 returns: lines 291-305
DecodeResumes ==
  /\ decodes # <<>>
  /\ LET d == Head(decodes)
         h == nHandles + 1
         r == [Cur EXCEPT
                 !.handle[h] = [st |-> "scheduled", ctx |-> d.ctx, sess |-> d.sess,
                                start |-> liveNextStartTime, dur |-> d.m.dur,
                                arr |-> d.arr, fresh |-> d.fresh,
                                cont |-> ~intr.sinceSched, late |-> d.late,
                                stale |-> d.stale,
                                voided |-> FALSE, queued |-> d.queued],
                 !.liveNextStartTime = AdvanceCursor(liveNextStartTime, d.m.dur),
                 !.liveSources = liveSources \cup {h}]
     IN  /\ \E sf \in SourceFaultsOf(r.liveSources) :
              Commit(MarkVoided(AfterAudio(r, d.m, sf), d.m, r.liveSources))
         /\ intr' = AfterAudioIntr([intr EXCEPT !.sinceSched = FALSE], d.m)
         /\ decodes' = MarkLate(Tail(decodes), d.m)
  /\ nHandles' = nHandles + 1
  /\ UNCHANGED <<activeSession, settings, toast, isMicMutedRef, attVars, connP, clock,
                 processor, pendingSends, nOut, sent, capturedMuted, hist, faultsOn, codec>>

\* onended emptying the whole set instead of deleting its own source
SourceEndedClears(h) ==
  /\ handle[h].st \in {"scheduled", "stopFailed"}
  /\ ctxOut[handle[h].ctx] = "running"
  /\ clock[handle[h].ctx] >= handle[h].start + handle[h].dur
  /\ Commit([Cur EXCEPT !.handle[h].st = "ended", !.liveSources = {}])
  /\ UNCHANGED <<activeSession, settings, toast, isMicMutedRef, attVars, connP, clock,
                 processor, pendingSends, nHandles, decodes, nOut, intr, sent,
                 capturedMuted, hist, faultsOn, codec>>

\* source.onended (App.tsx:294): the source played to its end
SourceEnded(h) ==
  /\ handle[h].st \in {"scheduled", "stopFailed"}
  /\ ctxOut[handle[h].ctx] = "running"
  /\ clock[handle[h].ctx] >= handle[h].start + handle[h].dur
  /\ Commit([Cur EXCEPT !.handle[h].st = "ended", !.liveSources = liveSources \ {h}])
  /\ UNCHANGED <<activeSession, settings, toast, isMicMutedRef, attVars, connP, clock,
                 processor, pendingSends, nHandles, decodes, nOut, intr, sent,
                 capturedMuted, hist, faultsOn, codec>>

\* the output context's clock advances while the context runs
ClockTick(c) ==
  /\ ctxOut[c] = "running"
  /\ clock[c] < MaxTime
  /\ clock' = [clock EXCEPT ![c] = @ + 1]
  /\ Commit(Cur)
  /\ UNCHANGED <<activeSession, settings, toast, isMicMutedRef, attVars, connP,
                 processor, pendingSends, nHandles, decodes, nOut, intr, sent,
                 capturedMuted, hist, faultsOn, codec>>

\* ------------------------------------------------------------------ PCM conversions
\* the samples followed: numerators over SampleDen, some beyond [-1, 1]
Samples == (-SampleDen - MaxOverdrive)..(SampleDen + MaxOverdrive)

\* Math.max(-1, Math.min(1, inputData[i]))   (App.tsx:263)
Clamp(n) == IF n > SampleDen THEN SampleDen ELSE IF n < -SampleDen THEN -SampleDen ELSE n

\* the store into an Int16Array element: the fraction is cut off (towards
\* zero) and the integer is taken modulo 2^16 into [-32768, 32767]
TruncDiv(v, d) == IF v >= 0 THEN v \div d ELSE -((-v) \div d)
ToInt16(i) == ((i + 32768) % 65536) - 32768

\* int16[i] = s < 0 ? s * 32768 : s * 32767;   (App.tsx:263-264)
FloatToInt16(n) ==
  LET c == Clamp(n)
      v == IF c < 0 THEN c * 32768 ELSE c * 32767
  IN  ToInt16(TruncDiv(v, SampleDen))

\* new Uint8Array(int16.buffer): the two bytes of the element, low byte first
PcmBytes(q) ==
  LET u == (q + 65536) % 65536 IN <<u % 256, u \div 256>>

\* new Int16Array(data.buffer) (App.tsx:51): the element read back
BytesToInt16(b) ==
  LET u == b[1] + 256 * b[2] IN IF u >= 32768 THEN u - 65536 ELSE u

\* channelData[i] = dataInt16[i] / 32768.0 (App.tsx:57): numerator over 32768
Int16ToFloat(q) == q

\* the conversion loop of onaudioprocess (App.tsx:260-266) on one sample
EncodeSample ==
  /\ codec.stage = "raw"
  /\ codec' = [codec EXCEPT !.stage = "encoded",
                            !.bytes = PcmBytes(FloatToInt16(codec.sample))]
  /\ UNCHANGED <<ctlVars, refVars, attVars, platVars, histVars>>

\* decodeAudioData (App.tsx:50-61) on the bytes of one sample
DecodeSample ==
  /\ codec.stage = "encoded"
  /\ codec' = [codec EXCEPT !.stage = "decoded",
                            !.out = Int16ToFloat(BytesToInt16(codec.bytes))]
  /\ UNCHANGED <<ctlVars, refVars, attVars, platVars, histVars>>

\* one sample of a captured block
InitCodec ==
  /\ InitCommon
  /\ faultsOn = "none"
  /\ \E n \in Samples : codec = [NoCodec EXCEPT !.stage = "raw", !.sample = n]

NextCodec == EncodeSample \/ DecodeSample

SpecCodec == InitCodec /\ [][NextCodec]_vars

\* ------------------------------------------------------------------ base64 transport encoding
\* the byte values followed, and the longest byte sequence
ByteValues == {0, 1, 63, 64, 128, 170, 255}
MaxBytes == 4

RECURSIVE SeqsUpTo(_)
SeqsUpTo(n) ==
  IF n = 0 THEN {<<>>}
  ELSE LET S == SeqsUpTo(n - 1)
       IN  S \cup {Append(s, b) : s \in {t \in S : Len(t) = n - 1}, b \in ByteValues}

\* a character of the base64 text is written as its index in the alphabet
\* A-Z a-z 0-9 + / (0..63); Pad is the character "="
Pad == 64

\* String.fromCharCode(bytes[i])  (App.tsx:39): the code unit of the character
FromCharCode(b) == b

\* bytes[i] = binaryString.charCodeAt(i)  (App.tsx:46): the store into a
\* Uint8Array element keeps the code unit modulo 2^8
CharCodeToByte(c) == c % 256

\* btoa: three code units make four characters; a last group of one or two
\* code units is filled with zero bits and padded to four characters
RECURSIVE Btoa(_)
Btoa(s) ==
  IF Len(s) = 0 THEN <<>>
  ELSE IF Len(s) = 1
  THEN <<s[1] \div 4, (s[1] % 4) * 16, Pad, Pad>>
  ELSE IF Len(s) = 2
  THEN <<s[1] \div 4, (s[1] % 4) * 16 + (s[2] \div 16), (s[2] % 16) * 4, Pad>>
  ELSE <<s[1] \div 4, (s[1] % 4) * 16 + (s[2] \div 16),
         (s[2] % 16) * 4 + (s[3] \div 64), s[3] % 64>>
       \o Btoa(SubSeq(s, 4, Len(s)))

\* a group of four characters decoded as three code units whatever it holds
GroupNoPad(g) ==
  <<(g[1] % 64) * 4 + ((g[2] % 64) \div 16),
    ((g[2] % 64) % 16) * 16 + ((g[3] % 64) \div 4),
    ((g[3] % 64) % 4) * 64 + (g[4] % 64)>>

\* atob on one group of four characters: the padding tells how many code
\* units the group carries
Group(g) ==
  LET c1 == g[1] * 4 + (g[2] \div 16)
  IN  IF g[3] = Pad THEN <<c1>>
      ELSE LET c2 == (g[2] % 16) * 16 + (g[3] \div 4)
           IN  IF g[4] = Pad THEN <<c1, c2>>
               ELSE <<c1, c2, (g[3] % 4) * 64 + g[4]>>

RECURSIVE Atob(_)
Atob(t) ==
  IF Len(t) = 0 THEN <<>>
  ELSE Group(SubSeq(t, 1, 4)) \o Atob(SubSeq(t, 5, Len(t)))

\* encode (App.tsx:37-41)
encode(bytes) == Btoa([i \in 1..Len(bytes) |-> FromCharCode(bytes[i])])

\* decode (App.tsx:43-48)
decode(base64) ==
  LET binaryString == Atob(base64)
  IN  [i \in 1..Len(binaryString) |-> CharCodeToByte(binaryString[i])]

\* encode applied to a byte sequence
EncodeBytes ==
  /\ codec.stage = "bytes"
  /\ codec' = [codec EXCEPT !.stage = "text", !.text = encode(codec.data)]
  /\ UNCHANGED <<ctlVars, refVars, attVars, platVars, histVars>>

\* decode applied to the text encode returned
DecodeText ==
  /\ codec.stage = "text"
  /\ codec' = [codec EXCEPT !.stage = "back", !.back = decode(codec.text)]
  /\ UNCHANGED <<ctlVars, refVars, attVars, platVars, histVars>>

\* one byte sequence of a payload
InitBase64 ==
  /\ InitCommon
  /\ faultsOn = "none"
  /\ \E x \in SeqsUpTo(MaxBytes) : codec = [NoCodec EXCEPT !.stage = "bytes", !.data = x]

NextBase64 == EncodeBytes \/ DecodeText

SpecBase64 == InitBase64 /\ [][NextBase64]_vars

\* ------------------------------------------------------------------ specification
\* startVoiceMode, stopVoiceMode and the transport lifecycle
Session ==
  \/ StartVoiceModeNoSession
  \/ CreateChat
  \/ StopVoiceModeUser
  \/ \E a \in Sessions : GetUserMediaResolves(a)
  \/ \E a \in Sessions : GetUserMediaRejects(a)
  \/ \E a \in Sessions : ConnectResolves(a)
  \/ \E a \in Sessions : ConnectRejects(a)
  \/ \E a \in Sessions : OnOpen(a)
  \/ \E a \in Sessions : OnError(a)
  \/ \E a \in Sessions : OnClose(a)

\* the voice and language menus of the voice overlay
Menus ==
  \/ HandleVoiceLanguageChange
  \/ HandleVoiceChange

\* the mute and camera buttons of the voice overlay
Toggles ==
  \/ ToggleMute
  \/ SyncMuteRef
  \/ ToggleCamera

\* the capture callback and the frame sampler
Outbound ==
  \/ \E a \in Sessions : OnAudioProcess(a)
  \/ \E a \in Sessions : IntervalTick(a)

\* the message handler and the playback scheduler
Inbound ==
  \/ \E a \in Sessions : OnMessage(a)
  \/ DecodeResumes
  \/ \E h \in Handles : SourceEnded(h)
  \/ \E c \in Sessions : ClockTick(c)

\* the controller with the outbound path
Next == StartVoiceMode \/ Session \/ Toggles \/ Outbound

\* the controller with the menus that restart a session
NextMenus == StartVoiceMode \/ Session \/ Toggles \/ Menus

\* the controller with the inbound path
NextInbound == (nextId < MaxInboundSessions /\ StartVoiceMode) \/ Session \/ Inbound

\* one session that is set up without a failure, its inbound path and the
\* user's stop
NextEstablished ==
  \/ nextId < MaxInboundSessions /\ StartVoiceMode
  \/ CreateChat
  \/ StopVoiceModeUser
  \/ \E a \in Sessions : GetUserMediaResolves(a)
  \/ \E a \in Sessions : ConnectResolves(a)
  \/ \E a \in Sessions : OnOpen(a)
  \/ Inbound

\* sessions that follow one another, with the camera button and plain audio
\* chunks: starts, the steps that set a session up, stops, socket errors and
\* closes
NextSessions ==
  \/ StartVoiceMode
  \/ CreateChat
  \/ ToggleCamera
  \/ StopVoiceModeUser
  \/ \E a \in Sessions : GetUserMediaResolves(a)
  \/ \E a \in Sessions : ConnectResolves(a)
  \/ \E a \in Sessions : OnOpen(a)
  \/ \E a \in Sessions : OnError(a)
  \/ \E a \in Sessions : OnClose(a)
  \/ \E a \in Sessions : AudioChunkArrives(a)
  \/ DecodeResumes

\* the controller and the menus on a platform whose teardown calls may throw
NextFaults == StartVoiceMode \/ Session \/ Menus

Spec == Init /\ [][Next]_vars

SpecMenus == Init /\ [][NextMenus]_vars

SpecInbound == Init /\ [][NextInbound]_vars

SpecEstablished == Init /\ [][NextEstablished]_vars

SpecSourceFaults == InitSourceFaults /\ [][NextEstablished]_vars

SpecFaults == InitFaults /\ [][NextFaults]_vars

SpecSessions == Init /\ [][NextSessions]_vars


\* ------------------------------------------------------------------ properties
\* nothing of attempt a is alive: its socket, stream, contexts, capture
\* callback and interval
Released(a) ==
  /\ ws[a] \notin {"connecting", "open"}
  /\ stream[a] # "live"
  /\ ctxIn[a] # "running"
  /\ ctxOut[a] # "running"
  /\ ~ProcessorRuns(a)
  /\ ~timer[a]

\* the controller's slots are empty
HoldsNothing ==
  /\ liveSessionRef = Null
  /\ streamRef = Null
  /\ liveAudioCtxInRef = Null
  /\ liveAudioCtxOutRef = Null

ControllerIdle == ~isVoiceModeActive

\* the await that was pending when stopVoiceMode ran has returned
AttemptCompleted(a) ==
  CASE hist[a].stoppedAt = "acquiring"  -> pc[a] # "acquiring"
    [] hist[a].stoppedAt = "connecting" -> pc[a] = "done" \/ hist[a].opened
    [] OTHER                            -> FALSE

\* C1: when stopVoiceMode ran while the latest startVoiceMode was suspended on
\* getUserMedia or on the connect, then once that await has returned the
\* controller is Idle, its slots are empty, nothing of the attempt is alive and
\* no capture callback runs.
C1_InFlightStartDiscarded ==
  \A a \in Sessions :
    (nextId = a /\ hist[a].stoppedAt # "no" /\ AttemptCompleted(a))
      => /\ ControllerIdle
         /\ HoldsNothing
         /\ Released(a)
         /\ \A b \in Sessions : ~ProcessorRuns(b)

\* C2: at most one attempt holds resources (socket, stream, contexts, capture
\* callback, interval) at any time.
C2_AtMostOneSessionAlive ==
  Cardinality({a \in Sessions : ~Released(a)}) <= 1

\* a step that runs the interruption branch (App.tsx:299-303): a message
\* without audio to play, or the resumption of one whose audio was decoded
InterruptionHandled ==
  \/ \E a \in Sessions, m \in Messages :
       /\ m.interrupted
       /\ m.audio = "none" \/ liveAudioCtxOutRef = Null
       /\ OnMessageOf(a, m)
  \/ /\ decodes # <<>>
     /\ Head(decodes).m.interrupted
     /\ DecodeResumes

C4_FreshChunkStartsAtNow ==
  [][/\ (nHandles' = nHandles + 1 /\ handle'[nHandles'].fresh)
          => /\ handle'[nHandles'].arr <= handle'[nHandles'].start
             /\ handle'[nHandles'].start <= clock[handle'[nHandles'].ctx]
     /\ intr'.sinceSched => \A h \in Handles : handle'[h].st # "scheduled"]_vars

\* C5: without an interruption in between, a chunk starts no earlier than the
\* clock at its arrival and no earlier than the end of the chunk scheduled
\* before it, and the cursor stands at the end of the last chunk or later.
C5_NoOverlap ==
  /\ \A h \in Handles :
       (handle[h].st # "none" /\ ~handle[h].late) => handle[h].start >= handle[h].arr
  /\ \A h \in Handles :
       (h > 1 /\ handle[h].st # "none" /\ handle[h].cont
              /\ handle[h].sess = handle[h - 1].sess)
         => handle[h].start >= handle[h - 1].start + handle[h - 1].dur
  /\ (nHandles >= 1 /\ ~intr.sinceSched)
       => liveNextStartTime >= handle[nHandles].start + handle[nHandles].dur

\* a chunk arrived while the previous chunk's decode was pending and was
\* scheduled right behind it
C5_Witness ==
  \E h \in Handles :
    /\ h > 1
    /\ handle[h].st # "none" /\ handle[h].cont /\ handle[h].queued
    /\ handle[h].start = handle[h - 1].start + handle[h - 1].dur
    /\ handle[h].start > handle[h].arr

\* C6: stopVoiceMode run on any reachable state leaves the controller Idle
\* with no live source and empty slots, and run again on the result changes
\* nothing.
C6_StopIdempotent ==
  LET once  == StopVoiceMode(Cur, "none", {})
      twice == StopVoiceMode(once, "none", {})
  IN  /\ twice = once
      /\ ~once.isVoiceModeActive
      /\ once.liveSources = {}
      /\ once.liveSessionRef = Null
      /\ once.streamRef = Null
      /\ once.liveAudioCtxInRef = Null
      /\ once.liveAudioCtxOutRef = Null

\* a state in which stopVoiceMode has every slot to release
C6_Witness ==
  /\ isVoiceModeActive
  /\ liveSessionRef # Null
  /\ streamRef # Null
  /\ liveAudioCtxInRef # Null
  /\ liveAudioCtxOutRef # Null
  /\ liveSources # {}

C8_CaptureOrder ==
  \A i, j \in 1..Len(sent) :
    (i < j /\ sent[i].sess = sent[j].sess /\ sent[i].kind = "audio"
           /\ sent[j].kind = "audio")
      => sent[i].id < sent[j].id

\* two blocks captured before the connect promise resolved were both sent
C8_Witness ==
  /\ Len(sent) >= 2
  /\ sent[1].queued /\ sent[2].queued
  /\ sent[1].sess = sent[2].sess
  /\ sent[1].kind = "audio" /\ sent[2].kind = "audio"

\* C9: every send was issued on a session that was open at that moment: none
\* before onopen, none after onclose or onerror, none after stopVoiceMode
\* closed it.
C9_SendsOnlyWhileOpen ==
  \A i \in 1..Len(sent) : sent[i].st = "open"

\* the handling of a device, connect or transport error of attempt a
ErrorHandled(a) == GetUserMediaRejects(a) \/ ConnectRejects(a) \/ OnError(a)

\* C10: the step that handles a device, connect or transport error of an
\* attempt leaves the controller Idle with empty slots, no live source, and
\* nothing of that attempt alive.
C10_ErrorsForceStop ==
  [][\A a \in Sessions :
       ErrorHandled(a) => /\ ControllerIdle'
                          /\ HoldsNothing'
                          /\ liveSources' = {}
                          /\ Released(a)']_vars

\* C11: an attempt that met a failure (device, connect or transport) has had
\* exactly one setToast call made for it, and no attempt ever has more than one.
C11_OneNotificationPerFailure ==
  \A a \in Sessions :
    /\ hist[a].notif <= 1
    /\ hist[a].failed # "none" => hist[a].notif = 1

\* onmessage is handed a chunk whose bytes do not decode, with an output
\* context to play on
MalformedAudioArrives ==
  \E a \in Sessions, m \in Messages :
    /\ m.audio = "bad"
    /\ liveAudioCtxOutRef # Null
    /\ OnMessageOf(a, m)

\* C12: the step that handles a chunk which fails to decode registers no
\* source, schedules nothing, runs no teardown and raises no notification:
\* sockets, stream, contexts, refs and the active flag are as before, so the
\* session is still open for the chunks that follow.
C12_MalformedChunkDropped ==
  [][MalformedAudioArrives =>
       /\ nHandles' = nHandles /\ handle' = handle
       /\ liveSources' = liveSources /\ decodes' = decodes
       /\ ws' = ws /\ stream' = stream /\ ctxIn' = ctxIn /\ ctxOut' = ctxOut
       /\ liveSessionRef' = liveSessionRef /\ streamRef' = streamRef
       /\ liveAudioCtxInRef' = liveAudioCtxInRef
       /\ liveAudioCtxOutRef' = liveAudioCtxOutRef
       /\ isVoiceModeActive' = isVoiceModeActive
       /\ toast' = toast /\ hist' = hist]_vars

\* a chunk that failed to decode moved the cursor and left no source behind,
\* and the session is open and active
C12_Witness ==
  /\ liveNextStartTime > 0
  /\ nHandles = 0 /\ decodes = <<>>
  /\ isVoiceModeActive
  /\ liveSessionRef # Null /\ ws[liveSessionRef] = "open"

\* C13: whichever single teardown call throws, stopVoiceMode run on any
\* reachable state leaves the controller Idle with the session, stream and
\* context refs released and no live source.
C13_TeardownBestEffort ==
  \A f \in Faults, sf \in SUBSET liveSources :
    LET r == StopVoiceMode(Cur, f, sf)
    IN  /\ ~r.isVoiceModeActive
        /\ r.liveSessionRef = Null
        /\ r.streamRef = Null
        /\ r.liveAudioCtxInRef = Null
        /\ r.liveAudioCtxOutRef = Null
        /\ r.liveSources = {}

C15_CameraFailureNotFatal ==
  \A a \in Sessions :
    (att[a].cam /\ hist[a].failed = "cam") => ws[a] # "none"

\* this step's sampler tick of attempt a submitted a frame: sent at once, or
\* queued behind the connect promise
FrameSubmitted(a) ==
  \/ /\ Len(sent') = Len(sent) + 1
     /\ sent'[Len(sent')].kind = "image"
     /\ sent'[Len(sent')].sess = a
     /\ ~sent'[Len(sent')].queued
  \/ /\ Len(pendingSends'[a]) = Len(pendingSends[a]) + 1
     /\ pendingSends'[a][Len(pendingSends'[a])].kind = "image"

\* C16: a sampler tick submits or queues a frame only while its session is
\* open, voice mode is active and the camera is active.
C16_SamplerOnlyWhileOpenWithCamera ==
  [][\A a \in Sessions :
       FrameSubmitted(a) => /\ ws[a] = "open"
                            /\ isVoiceModeActive
                            /\ isCameraActive]_vars

\* attempt a was started by a voice or language change: its configuration
\* differs from that of the attempt before it (only the two menu handlers
\* change the settings, and each starts an attempt itself)
StartedByChange(a) ==
  /\ a > 1 /\ a <= nextId
  /\ \/ att[a].language # att[a - 1].language
     \/ att[a].voice # att[a - 1].voice

\* C17: when a voice or language change started an attempt, every earlier
\* attempt is released (transport closed, stream stopped, contexts closed,
\* no capture callback, no interval) from then on, and the new attempt runs
\* with the settings the change selected.
C17_ChangeReopensSession ==
  \A a \in Sessions :
    StartedByChange(a) =>
      /\ \A b \in 1..(a - 1) : Released(b)
      /\ a = nextId => (att[a].language = settings.language
                        /\ att[a].voice = settings.voice)

\* C18: whenever voice mode is not active, the four refs are null, the live
\* set is empty, and no attempt has an open or connecting transport, a live
\* stream, a running context, a running capture callback or an armed interval.
C18_IdleHoldsNothing ==
  ~isVoiceModeActive =>
    /\ HoldsNothing
    /\ liveSources = {}
    /\ \A a \in Sessions : Released(a)

\* C19: a step that lowers the playback cursor is a step of the interruption
\* branch: it sets the cursor to 0, empties the live set and leaves no source
\* scheduled; every other step keeps the cursor or raises it.
C19_CursorMonotone ==
  [][liveNextStartTime' < liveNextStartTime =>
       /\ intr'.sinceSched
       /\ liveNextStartTime' = 0
       /\ liveSources' = {}
       /\ \A h \in Handles : handle'[h].st # "scheduled"]_vars

\* an interruption lowered the cursor: a source had been scheduled (cursor at
\* its end or later), the branch stopped it, and nothing was scheduled since
C19_Witness ==
  /\ liveNextStartTime = 0
  /\ intr.sinceSched
  /\ \E h \in Handles : handle[h].voided /\ handle[h].st = "stopped"
  /\ isVoiceModeActive

\* C20: a sample in [-1, 1] that was encoded and decoded differs from the
\* original by at most 1/32768:  |out/32768 - sample/SampleDen| <= 1/32768.
C20_RoundTripWithinOneStep ==
  (codec.stage = "decoded" /\ codec.sample >= -SampleDen /\ codec.sample <= SampleDen)
    => LET e == codec.out * SampleDen - codec.sample * 32768
       IN  e <= SampleDen /\ -e <= SampleDen

\* C21: a byte sequence that was encoded and decoded comes back byte for
\* byte, with the same length; the empty sequence included.
C21_Base64RoundTrip ==
  codec.stage = "back" => /\ Len(codec.back) = Len(codec.data)
                          /\ codec.back = codec.data

\* a sequence whose last group is padded and which holds bytes above 127
\* went through encode and decode
C21_Witness ==
  /\ codec.stage = "back"
  /\ Len(codec.data) = MaxBytes
  /\ codec.text[Len(codec.text)] = Pad
  /\ \E i \in 1..Len(codec.data) : codec.data[i] > 127

\* C22: stopVoiceMode run on any reachable state, with whichever teardown call
\* throwing: a step of the teardown has been carried out only if every step
\* before it has been, in the order session close, interval cancel, sources
\* stopped and cleared, tracks stopped, input context closed, output context
\* closed.
C22_TeardownInOrder ==
  \A f \in Faults, sf \in SUBSET liveSources :
    LET r         == StopVoiceMode(Cur, f, sf)
        closed    == r.ws = StopCloseSession(Cur).ws
        cancelled == r.timer = StopClearInterval(Cur).timer
        cleared   == r.liveSources = {} /\ r.handle = StopAllSources(Cur, sf).handle
        released  == r.stream = StopTracks(Cur).stream
        inClosed  == r.ctxIn = StopCtxIn(Cur).ctxIn
    IN  /\ r.timer # timer => closed
        /\ (r.liveSources # liveSources \/ r.handle # handle) => closed /\ cancelled
        /\ r.stream # stream => closed /\ cancelled /\ cleared
        /\ r.ctxIn # ctxIn => closed /\ cancelled /\ cleared /\ released
        /\ r.ctxOut # ctxOut => closed /\ cancelled /\ cleared /\ released /\ inClosed

\* a stopVoiceMode had every step to carry out and did: the session of
\* attempt a was open, its interval armed, a source of its audio scheduled,
\* its stream live and its contexts running
C22_Witness ==
  \E a \in Sessions :
    /\ ws[a] = "closing"
    /\ frameIntervalRef = a /\ ~timer[a]
    /\ liveSources = {}
    /\ \E h \in Handles : handle[h].sess = a /\ handle[h].st = "stopped"
    /\ stream[a] = "stopped"
    /\ ctxIn[a] = "closed"
    /\ ctxOut[a] = "closed"

\* C23: the capture callback of an attempt runs, or its sampler interval is
\* armed, only while voice mode is active and after that attempt's onopen:
\* never while the controller is Idle, never before the session is Open.
C23_SenderAndSamplerOnlyWhenOpen ==
  \A a \in Sessions :
    (ProcessorRuns(a) \/ timer[a]) => isVoiceModeActive /\ hist[a].opened

\* C24: the step in which a source plays to its end removes that source from
\* the live set and marks it ended; the cursor, every other source, the other
\* members of the set, the mute and camera flags, the refs, the sockets,
\* streams and contexts and everything else stay as they were.
C24_EndedRemovesOnlyItself ==
  [][\A h \in Handles :
       (handle[h].st # "ended" /\ handle'[h].st = "ended")
         => /\ liveSources' = liveSources \ {h}
            /\ handle' = [handle EXCEPT ![h].st = "ended"]
            /\ UNCHANGED <<liveNextStartTime, liveSessionRef, liveAudioCtxInRef,
                           liveAudioCtxOutRef, isMicMutedRef, streamRef,
                           frameIntervalRef>>
            /\ UNCHANGED <<ctlVars, attVars, histVars>>
            /\ UNCHANGED <<ws, connP, stream, ctxIn, ctxOut, clock, processor, timer,
                           pendingSends, nHandles, decodes>>]_vars

\* the first of two scheduled sources played to its end; the second is still
\* in the live set and the cursor is at its end
C24_Witness ==
  /\ handle[1].st = "ended"
  /\ liveSources = {2}
  /\ handle[2].st = "scheduled"
  /\ liveNextStartTime = handle[2].start + handle[2].dur

\* C25: while the controller holds, for an attempt that no stopVoiceMode
\* interrupted, a session whose socket is connecting or open or a live capture
\* stream, isVoiceModeActive is true.
C25_ActiveWhileHolding ==
  \A a \in Sessions :
    (/\ hist[a].stoppedAt = "no"
     /\ \/ liveSessionRef = a /\ ws[a] \in {"connecting", "open"}
        \/ streamRef = a /\ stream[a] = "live")
      => isVoiceModeActive

\* a stopVoiceMode ran on attempt a (while it was in flight, or closing its
\* socket) and the latest attempt was started after that stop: no stop ran
\* while it was in flight and its socket has not been closed
Superseded(a) ==
  /\ a < nextId
  /\ hist[a].stoppedAt # "no" \/ ws[a] \in {"closing", "closed"}
  /\ hist[nextId].stoppedAt = "no"
  /\ InFlight(pc[nextId]) \/ ws[nextId] \in {"connecting", "open"}

\* a transport callback of attempt a is delivered
CallbackOf(a) == OnError(a) \/ OnClose(a) \/ AudioChunkArrives(a)

\* C26: a step that delivers onerror, onclose or an audio message of a
\* superseded attempt leaves the latest attempt's socket, stream and contexts
\* as they were, raises no toast, and takes no chunk in for scheduling on the
\* latest attempt's output context.
C26_SupersededCallbacksInert ==
  [][\A a \in Sessions :
       (Superseded(a) /\ CallbackOf(a))
         => /\ ws'[nextId] = ws[nextId]
            /\ stream'[nextId] = stream[nextId]
            /\ ctxIn'[nextId] = ctxIn[nextId]
            /\ ctxOut'[nextId] = ctxOut[nextId]
            /\ toast' = toast
            /\ Len(decodes') > Len(decodes)
                 => decodes'[Len(decodes')].ctx # nextId]_vars

\* C27: the step that schedules the first source of a session starts it no
\* earlier than the output clock at the chunk's arrival and no later than the
\* clock when it is scheduled: the cursor an earlier session left does not
\* delay it.  The session is one that no stopVoiceMode interrupted in flight,
\* it schedules on its own output context, no other decode was pending when
\* its chunk arrived, and every other attempt has ended and holds nothing.
C27_CursorNotCarriedOver ==
  [][\A h \in Handles :
       (/\ handle[h].st = "none" /\ handle'[h].st # "none"
        /\ handle'[h].ctx = handle'[h].sess
        /\ hist[handle'[h].sess].stoppedAt = "no"
        /\ ~handle'[h].queued
        /\ \A g \in Handles : handle[g].sess # handle'[h].sess
        /\ \A b \in Sessions \ {handle'[h].sess} : Released(b) /\ ~InFlight(pc[b]))
         => /\ handle'[h].arr <= handle'[h].start
            /\ handle'[h].start <= clock[handle'[h].ctx]]_vars

\* C28: a chunk whose decode was pending when a later message's interruption
\* was handled is never made a source: it is not scheduled and not put in the
\* live set.
C28_StaleChunkNeverScheduled ==
  \A h \in Handles : handle[h].stale => handle[h].st = "none"

\* C29: no source is in the live set whose output context stopVoiceMode has
\* closed: a chunk whose decode was pending when the stop ran is not made a
\* source and not put in the set when its handler resumes.
C29_NoSourceAfterStop ==
  \A h \in liveSources : ctxOut[handle[h].ctx] # "closed"

\* the handler of a message with the interrupted flag comes to its end: at
\* once when the message has no audio to decode, no output context is set or
\* the decode throws; at the resumption of its decode otherwise
InterruptedMessageDone ==
  \/ \E a \in Sessions, m \in Messages :
       /\ m.interrupted
       /\ m.audio # "ok" \/ liveAudioCtxOutRef = Null
       /\ OnMessageOf(a, m)
  \/ /\ decodes # <<>>
     /\ Head(decodes).m.interrupted
     /\ DecodeResumes

\* C30: when the handler of a message with the interrupted flag has come to
\* its end, no source is scheduled, the live set is empty and the cursor is
\* 0, whatever the message's audio payload was.
C30_InterruptionAlwaysHonoured ==
  [][InterruptedMessageDone =>
       /\ liveSources' = {}
       /\ liveNextStartTime' = 0
       /\ \A h \in Handles : handle'[h].st # "scheduled"]_vars

====
